---- MODULE Spec2Model ----
(***************************************************************************)
(* Slice-to-volume reconstruction (shard-recon): the implicit linear       *)
(* operator of src/src/dwi/svr/recon.h (forward product A*x, adjoint       *)
(* product A^T*r) and the pipeline of src/cmd/dwirecon.cpp (run).          *)
(*                                                                         *)
(* Arithmetic is exact integer arithmetic.  Vectors are functions on       *)
(* 0..n-1, matrices are records [rows, cols, at] with at[i][j], both       *)
(* 0-based like the code's indices.  Lists (vector<...>) are sequences,    *)
(* so element k of the code is element k+1 of the sequence.  Points and    *)
(* 3x3 matrices are tuples.                                                *)
(*                                                                         *)
(* The specifications share the variables:                                 *)
(*   SpecProd  one evaluation of A*x followed by one of A^T*r on an        *)
(*             operator built by the ReconMatrix constructor;              *)
(*   SpecPar   the same two products, each executed by one worker per      *)
(*             volume (omp parallel for), every interleaving;              *)
(*   SpecBasis init_shellbasis and get_ncoefs, one loop iteration per      *)
(*             step;                                                       *)
(*   Spec      one execution of run().                                     *)
(***************************************************************************)
EXTENDS Integers, Sequences, FiniteSets, TLC

VARIABLES
  \* ---- the operator and its products (recon.h)
  R,        \* the ReconMatrix object: lmax, nx, ny, nz, nv, nxy, nc, shellbasis, motion, Y, W
  rhs_x,    \* rhs of A*x
  rhs_r,    \* rhs of A^T*r
  dst_y,    \* dst of A*x
  dst_x,    \* dst of A^T*r
  prodpc,   \* position of the product evaluation
  it,       \* number of (v,z) loop iterations completed in the current product
  dwival,   \* dwisub.value() in loop order
  Wvox,     \* voxel weights
  y,        \* weighted observation vector
  workers,  \* the workers of an omp parallel for: position and private variables
  lock,     \* the worker inside the omp critical section
  basis,    \* init_shellbasis: its arguments, loop counters and the writes B(j,i) = ...
  \* ---- run() (dwirecon.cpp)
  pc,       \* position of run()
  run       \* the local variables of run()

prodvars == <<R, rhs_x, rhs_r, dst_y, dst_x, prodpc, it, dwival, Wvox, y>>
runvars  == <<pc, run>>
parvars  == <<workers, lock>>
vars     == <<R, rhs_x, rhs_r, dst_y, dst_x, prodpc, it, dwival, Wvox, y, pc, run, workers, lock,
              basis>>

\* init_shellbasis is not being stepped through
BasisIdle == [pos |-> "idle"]

\* no worker is inside the omp critical section
NoWorker == -1

-----------------------------------------------------------------------------
(* Bounds of the model *)

\* size of the input image along x, y, z (slices) and its number of volumes
SizeX == 2
SizeY == 1
SizeZ == 2
SizeV == 2
\* number of dense test vectors drawn for x and for r
NumPatterns == 1

-----------------------------------------------------------------------------
(* Vectors and matrices *)

RECURSIVE SumTo(_, _)
\* sum of f[0..n-1]
SumTo(f, n) == IF n <= 0 THEN 0 ELSE f[n - 1] + SumTo(f, n - 1)

Dot(a, b, n) == SumTo([i \in 0 .. n - 1 |-> a[i] * b[i]], n)

Min(a, b) == IF a < b THEN a ELSE b
Max(a, b) == IF a < b THEN b ELSE a

ZeroVec(n) == [i \in 0 .. n - 1 |-> 0]

\* std::sqrt on the perfect squares the model uses
Sqrt(w) == CHOOSE s \in 0 .. w : s * s = w

-----------------------------------------------------------------------------
(* External collaborators: SH utility, shells, point-spread functions *)

\* Math::SH::NforL: number of even-order real SH coefficients up to lmax
NforL(lmax) == ((lmax + 1) * (lmax + 2)) \div 2

\* Math::SH::delta(delta, u, lmax): the even-order basis evaluated at direction u,
\* NforL(lmax) values, normalisation constants dropped so that values are integers
\* on axis-aligned directions; bands l > 2 are not evaluated (0).
delta(u, lmax) ==
  LET b2 == << u[1] * u[2], u[2] * u[3], 2 * u[3] * u[3] - u[1] * u[1] - u[2] * u[2],
               u[1] * u[3], u[1] * u[1] - u[2] * u[2] >>
  IN  [i \in 0 .. NforL(lmax) - 1 |->
        IF i = 0 THEN 1 ELSE IF i <= 5 THEN b2[i] ELSE 0]

RECURSIVE SortedSeq(_)
\* the elements of a finite set of integers in ascending order
SortedSeq(S) ==
  IF S = {} THEN << >>
  ELSE LET m == CHOOSE a \in S : \A b \in S : a <= b
       IN  << m >> \o SortedSeq(S \ {m})

\* DWI::Shells(grad): the volumes bucketed by b-value (column 3), shells in
\* ascending b-value, the volumes of a shell in ascending order
Shells(grad) ==
  LET bs == SortedSeq({grad.at[v][3] : v \in 0 .. grad.rows - 1})
  IN  [s \in 1 .. Len(bs) |->
        [bvalue |-> bs[s],
         volumes |-> SortedSeq({v \in 0 .. grad.rows - 1 : grad.at[v][3] = bs[s]})]]

\* Shells::largest(): the first shell of maximal volume count
largest(shells) ==
  LET s == CHOOSE a \in 1 .. Len(shells) :
             /\ \A b \in 1 .. Len(shells) : Len(shells[b].volumes) <= Len(shells[a].volumes)
             /\ \A b \in 1 .. a - 1 : Len(shells[b].volumes) < Len(shells[a].volumes)
  IN  shells[s]

\* support radius of the kernels: int n = 2 in get_sliceM
PsfN == 2

\* SSP<float>: slice sensitivity profile at integer offset s, unnormalised
ssp(s) == IF s = 0 THEN 2 ELSE IF s \in {-1, 1} THEN 1 ELSE 0

\* SincPSF<float>: separable interpolation kernel at integer offset d
sinc1(d) == IF d = 0 THEN 2 ELSE IF d \in {-1, 1} THEN -1 ELSE 0
sinc(d) == sinc1(d[1]) * sinc1(d[2]) * sinc1(d[3])

-----------------------------------------------------------------------------
(* class ReconMatrix (recon.h) *)

\* cosine and sine of a rotation angle given in quarter turns
Cos4(a) == << 1, 0, -1, 0 >>[(a % 4) + 1]
Sin4(a) == << 0, 1, 0, -1 >>[(a % 4) + 1]

MatMul3(A, B) ==
  LET e(i, j) == A[i][1] * B[1][j] + A[i][2] * B[2][j] + A[i][3] * B[3][j]
  IN  << << e(1, 1), e(1, 2), e(1, 3) >>,
         << e(2, 1), e(2, 2), e(2, 3) >>,
         << e(3, 1), e(3, 2), e(3, 3) >> >>

MatVec3(A, u) ==
  << A[1][1] * u[1] + A[1][2] * u[2] + A[1][3] * u[3],
     A[2][1] * u[1] + A[2][2] * u[2] + A[2][3] * u[3],
     A[3][1] * u[1] + A[3][2] * u[2] + A[3][3] * u[3] >>

Identity3 == << << 1, 0, 0 >>, << 0, 1, 0 >>, << 0, 0, 1 >> >>

\* AngleAxisf(a1, UnitX) * AngleAxisf(a2, UnitY) * AngleAxisf(a3, UnitZ)
get_rotation(a1, a2, a3) ==
  LET rx == << << 1, 0, 0 >>, << 0, Cos4(a1), -Sin4(a1) >>, << 0, Sin4(a1), Cos4(a1) >> >>
      ry == << << Cos4(a2), 0, Sin4(a2) >>, << 0, 1, 0 >>, << -Sin4(a2), 0, Cos4(a2) >> >>
      rz == << << Cos4(a3), -Sin4(a3), 0 >>, << Sin4(a3), Cos4(a3), 0 >>, << 0, 0, 1 >> >>
  IN  MatMul3(MatMul3(rx, ry), rz)

\* a rigid transform is [linear, translation]
get_transform(p) ==
  [linear |-> get_rotation(p[3], p[4], p[5]), translation |-> << p[0], p[1], p[2] >>]

Compose(T1, T2) ==
  [linear |-> MatMul3(T1.linear, T2.linear),
   translation |-> LET t == MatVec3(T1.linear, T2.translation)
                   IN  << t[1] + T1.translation[1], t[2] + T1.translation[2],
                          t[3] + T1.translation[3] >>]

Apply(T, u) ==
  LET t == MatVec3(T.linear, u)
  IN  << t[1] + T.translation[1], t[2] + T.translation[2], t[3] + T.translation[3] >>

\* Transform T0 (in): the input image has unit voxels aligned with the scanner axes
T0 ==
  [voxel2scanner |-> [linear |-> Identity3, translation |-> << 0, 0, 0 >>],
   scanner2voxel |-> [linear |-> Identity3, translation |-> << 0, 0, 0 >>]]

RECURSIVE get_ncoefs(_, _)
get_ncoefs(rf, lmax) ==
  IF rf = << >> THEN NforL(lmax)
  ELSE LET n == NforL(Min(2 * (rf[Len(rf)].cols - 1), lmax))
       IN  IF Len(rf) = 1 THEN n ELSE get_ncoefs(SubSeq(rf, 1, Len(rf) - 1), lmax) + n

\* idx[v] = s for every volume v of shell s (0-based s)
get_shellidx(grad) ==
  LET shells == Shells(grad)
  IN  [v \in 0 .. grad.rows - 1 |->
        (CHOOSE s \in 1 .. Len(shells) :
           \E k \in 1 .. Len(shells[s].volumes) : shells[s].volumes[k] = v) - 1]

RECURSIVE BandWrites(_, _, _, _)
\* the (column i, value) pairs written for bands l .. of component r, in loop order
BandWrites(r, s, lmax, l) ==
  IF ~(l < r.cols /\ 2 * l <= lmax) THEN << >>
  ELSE [k \in 1 .. ((l + 1) * (2 * l + 1) - l * (2 * l - 1)) |->
          << l * (2 * l - 1) + k - 1, r.at[s][l] >>]
       \o BandWrites(r, s, lmax, l + 1)

RECURSIVE ShellWrites(_, _, _)
\* the writes B(j,i) = r(s,l) of one shell: write number j (from 0) is element j+1
ShellWrites(rf, s, lmax) ==
  IF rf = << >> THEN << >>
  ELSE BandWrites(rf[1], s, lmax, 0) \o ShellWrites(Tail(rf), s, lmax)

init_shellbasis(grad, rf, lmax, nc) ==
  LET shells == Shells(grad)
  IN  [s1 \in 1 .. Len(shells) |->
        IF rf = << >>
        THEN [rows |-> NforL(lmax), cols |-> NforL(lmax),
              at |-> [j \in 0 .. NforL(lmax) - 1 |->
                       [i \in 0 .. NforL(lmax) - 1 |-> IF i = j THEN 1 ELSE 0]]]
        ELSE LET w == ShellWrites(rf, s1 - 1, lmax)
             IN  [rows |-> nc, cols |-> NforL(lmax),
                  at |-> [j \in 0 .. nc - 1 |->
                           [i \in 0 .. NforL(lmax) - 1 |->
                             IF j < Len(w) /\ w[j + 1][1] = i THEN w[j + 1][2] ELSE 0]]]]

\* marks "no motion row": rot stays the identity
NoRow == -1

\* the motion row whose rotation init_Y applies to the gradient of slice (i, j)
init_Y_row(motion, nv, nz, i, j) ==
  IF motion.rows = nv * nz THEN i * nz + j
  ELSE IF motion.rows = nv THEN i
  ELSE NoRow

init_Y(grad, motion, nv, nz, lmax, nc, shellbasis) ==
  LET idx == get_shellidx(grad)
      row(i, j) ==
        LET vec == << grad.at[i][0], grad.at[i][1], grad.at[i][2] >>
            m   == init_Y_row(motion, nv, nz, i, j)
            rot == IF m = NoRow THEN Identity3
                   ELSE get_rotation(motion.at[m][3], motion.at[m][4], motion.at[m][5])
            d   == delta(MatVec3(rot, vec), lmax)
            B   == shellbasis[idx[i] + 1]
        IN  [c \in 0 .. nc - 1 |-> SumTo([k \in 0 .. B.cols - 1 |-> B.at[c][k] * d[k]], B.cols)]
  IN  [rows |-> nv * nz, cols |-> nc,
       at |-> [q \in 0 .. nv * nz - 1 |-> row(q \div nz, q % nz)]]

\* the constructor; W is left empty until setW
ReconMatrix(size, rigid, grad, lmax, rf) ==
  LET nx == size[1]
      ny == size[2]
      nz == size[3]
      nv == size[4]
      nc == get_ncoefs(rf, lmax)
      sb == init_shellbasis(grad, rf, lmax, nc)
  IN  [lmax |-> lmax, nx |-> nx, ny |-> ny, nz |-> nz, nv |-> nv, nxy |-> nx * ny,
       nc |-> nc, shellbasis |-> sb, motion |-> rigid,
       Y |-> init_Y(grad, rigid, nv, nz, lmax, nc, sb),
       W |-> [rows |-> 0, cols |-> 0, at |-> << >>]]

setW(M, weights) == [M EXCEPT !.W = weights]

rows(M) == M.nv * M.nz * M.nxy
cols(M) == M.nxy * M.nz * M.nc

\* mutant of get_grad_idx: the volume does not enter the slab index
get_grad_idx_slice_only(M, v, z) == z

get_grad_idx(M, v, z) == v * M.nz + z

get_idx(M, px, py, pz) == pz * M.nxy + py * M.nx + px

inbounds(M, px, py, pz) ==
  /\ px >= 0 /\ px < M.nx
  /\ py >= 0 /\ py < M.ny
  /\ pz >= 0 /\ pz < M.nz

\* the motion row get_Ts2r reads for slice (v, z)
get_Ts2r_row(M, v, z) == IF M.motion.rows = M.nv THEN v ELSE v * M.nz + z

\* rows an out-of-range read of the motion table may return
StrayRows == { [k \in 0 .. 5 |-> IF k = 2 THEN t ELSE 0] : t \in {0, 1} }

\* the transforms get_Ts2r(v, z) may return: one, unless the row read lies
\* outside the motion table
get_Ts2r(M, v, z) ==
  LET m == get_Ts2r_row(M, v, z)
      ps == IF m < M.motion.rows THEN {M.motion.at[m]} ELSE StrayRows
  IN  { Compose(T0.scanner2voxel, Compose(get_transform(p), T0.voxel2scanner)) : p \in ps }

\* std::ceil on the integer coordinates of the model
Ceil(a) == a

\* the function f with its values computed once (the same function)
Stored(f) == f @@ << >>

\* the point whose index get_idx is col, when it is in bounds
VoxelAt(M, col) == << col % M.nx, (col \div M.nx) % M.ny, col \div M.nxy >>

\* the sparse matrix Ms (nxy x nxy*nz) of slice z under transform Ts2r:
\* Ms(i, get_idx(p)) += ssp(s) * sinc(pr - p) over the ssp neighbourhood s and
\* the points p = ceil(pr) + (rx, ry, rz), -n <= rx, ry, rz < n, that are in bounds
get_sliceM(M, z, Ts2r) ==
  LET row(i) ==
        LET prs == Stored([s \in -PsfN .. PsfN |-> Apply(Ts2r, << i % M.nx, i \div M.nx, z + s >>)])
            entry(col) ==
              LET p == VoxelAt(M, col)
                  term(s) ==
                    LET pr == prs[s]
                        inbox == \A a \in 1 .. 3 :
                                   /\ p[a] - Ceil(pr[a]) >= -PsfN
                                   /\ p[a] - Ceil(pr[a]) < PsfN
                    IN  IF inbox /\ inbounds(M, p[1], p[2], p[3])
                              /\ get_idx(M, p[1], p[2], p[3]) = col
                        THEN ssp(s) * sinc(<< pr[1] - p[1], pr[2] - p[2], pr[3] - p[3] >>)
                        ELSE 0
              IN  SumTo([q \in 0 .. 2 * PsfN |-> term(q - PsfN)], 2 * PsfN + 1)
        IN  Stored([col \in 0 .. M.nxy * M.nz - 1 |-> entry(col)])
  IN  Stored([i \in 0 .. M.nxy - 1 |-> row(i)])

get_sliceY(M, v, z) == M.Y.at[v * M.nz + z]

-----------------------------------------------------------------------------
(* The products: generic_product_impl<...>::scaleAndAddTo (recon.h) *)

\* M * rhs.segment(base, nxy*nz) for the nxy x nxy*nz matrix Ms
MTimes(M, Ms, rhs, base) ==
  [i \in 0 .. M.nxy - 1 |->
     SumTo([c \in 0 .. M.nxy * M.nz - 1 |-> Ms[i][c] * rhs[base + c]], M.nxy * M.nz)]

\* Ms.adjoint() * rhs.segment(base, nxy)
MtTimes(M, Ms, rhs, base) ==
  [c \in 0 .. M.nxy * M.nz - 1 |->
     SumTo([i \in 0 .. M.nxy - 1 |-> Ms[i][c] * rhs[base + i]], M.nxy)]

\* mutant of WeightedY: the weight is read at W(v, z)
WeightedY_transposed_weight(M, v, z) ==
  LET Yr == get_sliceY(M, v, z)
  IN  [j \in 0 .. M.nc - 1 |-> M.W.at[v][z] * Yr[j]]

\* VectorXf Y = W(z, v) * lhs.get_sliceY(v, z)
WeightedY(M, v, z) ==
  LET Yr == get_sliceY(M, v, z)
  IN  [j \in 0 .. M.nc - 1 |-> M.W.at[z][v] * Yr[j]]

\* one iteration (v, z) of A*x:
\*   dst.segment(get_grad_idx(v,z)*nxy, nxy) += Y[j] * M * rhs.segment(j*nxyz, nxyz), all j
ForwardSlice(M, dst, rhs, v, z, Ms) ==
  LET Yw   == Stored(WeightedY(M, v, z))
      nxyz == M.nxy * M.nz
      base == get_grad_idx(M, v, z) * M.nxy
      prod == Stored([j \in 0 .. M.nc - 1 |-> Stored(MTimes(M, Ms, rhs, j * nxyz))])
      add  == [i \in 0 .. M.nxy - 1 |->
                SumTo([j \in 0 .. M.nc - 1 |-> Yw[j] * prod[j][i]], M.nc)]
  IN  [k \in DOMAIN dst |->
        IF k >= base /\ k < base + M.nxy THEN dst[k] + add[k - base] ELSE dst[k]]

\* mutant of AdjointSlice: the residual slab is read at (z*nv + v)*nxy
AdjointSlice_swapped_slab(M, dst, rhs, v, z, Ms) ==
  LET Yw   == Stored(WeightedY(M, v, z))
      nxyz == M.nxy * M.nz
      r    == Stored(MtTimes(M, Ms, rhs, (z * M.nv + v) * M.nxy))
  IN  [k \in DOMAIN dst |->
        IF k < M.nc * nxyz THEN dst[k] + Yw[k \div nxyz] * r[k % nxyz] ELSE dst[k]]

\* one iteration (v, z) of A^T*r:
\*   r = Mt * rhs.segment(get_grad_idx(v,z)*nxy, nxy); dst.segment(j*nxyz, nxyz) += Y[j] * r, all j
AdjointSlice(M, dst, rhs, v, z, Ms) ==
  LET Yw   == Stored(WeightedY(M, v, z))
      nxyz == M.nxy * M.nz
      r    == Stored(MtTimes(M, Ms, rhs, get_grad_idx(M, v, z) * M.nxy))
  IN  [k \in DOMAIN dst |->
        IF k < M.nc * nxyz THEN dst[k] + Yw[k \div nxyz] * r[k % nxyz] ELSE dst[k]]

\* the loops run v over W.cols() (outer) and z over W.rows() (inner)
LoopV(M, n) == n \div M.W.rows
LoopZ(M, n) == n % M.W.rows
LoopEnd(M) == M.W.cols * M.W.rows

\* the transform of slice (v, z) when the motion row read exists
The_Ts2r(M, v, z) == CHOOSE T \in get_Ts2r(M, v, z) : TRUE

RECURSIVE ForwardProduct(_, _, _, _)
\* dst after the first n iterations of A*x
ForwardProduct(M, dst, rhs, n) ==
  IF n = 0 THEN dst
  ELSE LET v == LoopV(M, n - 1)
           z == LoopZ(M, n - 1)
       IN  ForwardSlice(M, ForwardProduct(M, dst, rhs, n - 1), rhs, v, z,
                        get_sliceM(M, z, The_Ts2r(M, v, z)))

RECURSIVE AdjointProduct(_, _, _, _)
\* dst after the first n iterations of A^T*r
AdjointProduct(M, dst, rhs, n) ==
  IF n = 0 THEN dst
  ELSE LET v == LoopV(M, n - 1)
           z == LoopZ(M, n - 1)
       IN  AdjointSlice(M, AdjointProduct(M, dst, rhs, n - 1), rhs, v, z,
                        get_sliceM(M, z, The_Ts2r(M, v, z)))

\* y[j] = std::sqrt(Wsub(z, v) * Wvox[j]) * dwisub.value(), j in the order of
\* Loop({0,1,2,3}) over the image (x fastest, volume slowest)
LoadY(size, Wsub, wvox, values) ==
  LET nxy == size[1] * size[2]
  IN  [j \in 0 .. size[1] * size[2] * size[3] * size[4] - 1 |->
        LET z == (j \div nxy) % size[3]
            v == j \div (nxy * size[3])
        IN  Sqrt(Wsub.at[z][v] * wvox[j]) * values[j]]

\* ---- inputs of SpecProd

ImageSize == << SizeX, SizeY, SizeZ, SizeV >>

\* weight values: 0, 1 and a weight that is neither
WeightValues == << 0, 1, 4 >>

WeightTables(nr, ncol) ==
  { [rows |-> nr, cols |-> ncol, at |-> [z \in 0 .. nr - 1 |-> [v \in 0 .. ncol - 1 |-> 1]]] }
  \cup
  { [rows |-> nr, cols |-> ncol,
     at |-> [z \in 0 .. nr - 1 |-> [v \in 0 .. ncol - 1 |-> WeightValues[((z + v * nr + k) % 3) + 1]]]]
    : k \in 0 .. 2 }

\* motion row m of pattern k: integer translations, rotations in quarter turns
MotionRow(m, k) ==
  [c \in 0 .. 5 |->
     CASE c = 0 -> (m + k) % 2
       [] c = 2 -> ((m \div 2) + k) % 2
       [] c = 5 -> (m + k) % 2
       [] c = 3 -> (m \div 2) % 2
       [] OTHER -> 0]

\* per-volume tables (nv rows), per-slice tables (nv*nz rows), and per-slice
\* tables that repeat the per-volume row for every slice of the volume
MotionTables(nv, nz) ==
  { [rows |-> nv, cols |-> 6, at |-> [m \in 0 .. nv - 1 |-> MotionRow(m, k)]] : k \in 0 .. 1 }
  \cup
  { [rows |-> nv * nz, cols |-> 6, at |-> [m \in 0 .. nv * nz - 1 |-> MotionRow(m, 1)]],
    [rows |-> nv * nz, cols |-> 6, at |-> [m \in 0 .. nv * nz - 1 |-> MotionRow(m \div nz, 1)]] }

\* gradient table k: axis-aligned directions, b-value in column 3
\* (k = 0: one shell; k = 1, 2: two shells, volume 0 in the lower / the upper one)
GradTable(nv, k) ==
  [rows |-> nv, cols |-> 4,
   at |-> [v \in 0 .. nv - 1 |->
            [c \in 0 .. 3 |->
               IF c = 3 THEN (IF k = 0 THEN 0 ELSE (v + k + 1) % 2)
               ELSE IF c = (v + k) % 3 THEN 1 ELSE 0]]]

GradTables(nv) == { GradTable(nv, k) : k \in 0 .. 1 }

\* a radial basis matrix with nr rows (shells) and ncol columns (bands)
RfMatrix(nr, ncol, k) ==
  [rows |-> nr, cols |-> ncol,
   at |-> [s \in 0 .. nr - 1 |-> [l \in 0 .. ncol - 1 |-> s + l + k]]]

\* (lmax, rf): single-shell, and multi-shell with one and with two components
BasisChoices(nshells) ==
  { << 2, << >> >>,
    << 2, << RfMatrix(nshells, 2, 1) >> >>,
    << 0, << RfMatrix(nshells, 1, 1), RfMatrix(nshells, 1, 2) >> >> }

\* dense test vectors and unit vectors of length n
TestVectors(n) ==
  { [i \in 0 .. n - 1 |-> (((i + 1) * (k + 1) + (i \div 2)) % 3) - 1] : k \in 1 .. NumPatterns }
  \cup { [i \in 0 .. n - 1 |-> IF i = (k * 3) % n THEN 1 ELSE 0] : k \in 1 .. NumPatterns }

\* voxel weights of the subset image
VoxWeightVector(n) == [j \in 0 .. n - 1 |-> WeightValues[(j % 3) + 1]]

\* run() has not been called
RunIdle == [failure |-> "none"]

InitProd ==
  /\ workers = << >>
  /\ lock = NoWorker
  /\ basis = BasisIdle
  /\ \E grad \in GradTables(SizeV), W \in WeightTables(SizeZ, SizeV),
        rigid \in MotionTables(SizeV, SizeZ) :
       \E b \in BasisChoices(Len(Shells(grad))) :
         R = setW(ReconMatrix(ImageSize, rigid, grad, b[1], b[2]), W)
  /\ rhs_x \in TestVectors(cols(R))
  /\ rhs_r \in TestVectors(rows(R))
  /\ dst_y = ZeroVec(rows(R))
  /\ dst_x = ZeroVec(cols(R))
  /\ prodpc = "load"
  /\ it = 0
  /\ dwival = [j \in 0 .. rows(R) - 1 |-> 1 + (j % 2)]
  /\ Wvox = VoxWeightVector(rows(R))
  /\ y = ZeroVec(rows(R))
  /\ pc = "idle"
  /\ run = RunIdle

\* dwirecon.cpp: the observation vector is loaded and weighted before the solve
ProdLoadY ==
  /\ UNCHANGED << parvars, basis >>
  /\ prodpc = "load"
  /\ y' = LoadY(ImageSize, R.W, Wvox, dwival)
  /\ prodpc' = "forward"
  /\ UNCHANGED << R, rhs_x, rhs_r, dst_y, dst_x, it, dwival, Wvox, pc, run >>

\* one iteration of the loop of A*x
ProdForward ==
  /\ UNCHANGED << parvars, basis >>
  /\ prodpc = "forward"
  /\ it < LoopEnd(R)
  /\ \E T \in get_Ts2r(R, LoopV(R, it), LoopZ(R, it)) :
       dst_y' = ForwardSlice(R, dst_y, rhs_x, LoopV(R, it), LoopZ(R, it),
                             get_sliceM(R, LoopZ(R, it), T))
  /\ it' = it + 1
  /\ UNCHANGED << R, rhs_x, rhs_r, dst_x, prodpc, dwival, Wvox, y, pc, run >>

\* A*x has returned; A^T*r starts
ProdForwardEnd ==
  /\ UNCHANGED << parvars, basis >>
  /\ prodpc = "forward"
  /\ it = LoopEnd(R)
  /\ prodpc' = "adjoint"
  /\ it' = 0
  /\ UNCHANGED << R, rhs_x, rhs_r, dst_y, dst_x, dwival, Wvox, y, pc, run >>

\* one iteration of the loop of A^T*r
ProdAdjoint ==
  /\ UNCHANGED << parvars, basis >>
  /\ prodpc = "adjoint"
  /\ it < LoopEnd(R)
  /\ \E T \in get_Ts2r(R, LoopV(R, it), LoopZ(R, it)) :
       dst_x' = AdjointSlice(R, dst_x, rhs_r, LoopV(R, it), LoopZ(R, it),
                             get_sliceM(R, LoopZ(R, it), T))
  /\ it' = it + 1
  /\ UNCHANGED << R, rhs_x, rhs_r, dst_y, prodpc, dwival, Wvox, y, pc, run >>

ProdAdjointEnd ==
  /\ UNCHANGED << parvars, basis >>
  /\ prodpc = "adjoint"
  /\ it = LoopEnd(R)
  /\ prodpc' = "done"
  /\ UNCHANGED << R, rhs_x, rhs_r, dst_y, dst_x, it, dwival, Wvox, y, pc, run >>

NextProd == ProdLoadY \/ ProdForward \/ ProdForwardEnd \/ ProdAdjoint \/ ProdAdjointEnd

SpecProd == InitProd /\ [][NextProd]_vars

-----------------------------------------------------------------------------
(* The products under omp parallel for: one worker per volume v *)

\* a worker at the start of its loop over z
WorkerStart ==
  [z |-> 0, j |-> 0, phase |-> "compute", tmp |-> << >>, add |-> << >>, r |-> << >>, Yw |-> << >>]

\* the destination range of A*x for slice (v, z): dst.segment(get_grad_idx(v,z)*nxy, nxy)
ForwardSlab(M, v, z) ==
  { get_grad_idx(M, v, z) * M.nxy + i : i \in 0 .. M.nxy - 1 }

\* the destination range of A^T*r for channel j: dst.segment(j*nxyz, nxyz)
AdjointSegment(M, j) == { j * M.nxy * M.nz + i : i \in 0 .. M.nxy * M.nz - 1 }

\* mutant of CriticalFree: the section is entered without waiting
CriticalFree_unguarded(l) == TRUE

\* #pragma omp critical: a worker enters when no worker is inside
CriticalFree(l) == l = NoWorker

\* operators of the parallel products: two shells, per-slice motion, one and two
\* coefficient channels, slice weights 0, 1 and 4 with slices of non-zero
\* weight in every volume
ParBasisChoices(nshells) ==
  { << 0, << >> >>, << 0, << RfMatrix(nshells, 1, 1), RfMatrix(nshells, 1, 2) >> >> }

ParWeightTables(nr, ncol) ==
  { [rows |-> nr, cols |-> ncol,
     at |-> [z \in 0 .. nr - 1 |-> [v \in 0 .. ncol - 1 |-> WeightValues[((z + v * nr + k) % 3) + 1]]]]
    : k \in {0, 2} }

\* a dense vector with entries 1 and 3
ParVector(n) == [i \in 0 .. n - 1 |-> 1 + 2 * ((i + (i \div 3)) % 2)]

\* the image of the parallel products: one row of voxels per slice
ParImageSize == << SizeX, 1, SizeZ, SizeV >>

InitPar ==
  /\ \E W \in ParWeightTables(SizeZ, SizeV) :
       \E b \in ParBasisChoices(Len(Shells(GradTable(SizeV, 1)))) :
         R = setW(ReconMatrix(ParImageSize,
                              [rows |-> SizeV * SizeZ, cols |-> 6,
                               at |-> [m \in 0 .. SizeV * SizeZ - 1 |-> MotionRow(m, 1)]],
                              GradTable(SizeV, 1), b[1], b[2]), W)
  /\ rhs_x = ParVector(cols(R))
  /\ rhs_r = ParVector(rows(R))
  /\ dst_y = ZeroVec(rows(R))
  /\ dst_x = ZeroVec(cols(R))
  /\ prodpc = "parforward"
  /\ workers = [v \in 0 .. R.W.cols - 1 |-> WorkerStart]
  /\ lock = NoWorker
  /\ basis = BasisIdle
  /\ it = 0
  /\ dwival = << >>
  /\ Wvox = << >>
  /\ y = << >>
  /\ pc = "idle"
  /\ run = RunIdle

\* the worker of volume v moves on to slice z + 1, or has finished its volume
NextSlice(M, w) ==
  IF w.z + 1 < M.W.rows
  THEN [WorkerStart EXCEPT !.z = w.z + 1]
  ELSE [WorkerStart EXCEPT !.z = w.z + 1, !.phase = "done"]

\* A*x, worker v, slice z: M = get_sliceM(v, z), Y = W(z, v) * get_sliceY(v, z)
\* and the products Y[j] * M * rhs.segment(j*nxyz, nxyz); reads lhs and rhs only
ParForwardCompute(v) ==
  /\ prodpc = "parforward"
  /\ workers[v].phase = "compute"
  /\ LET z    == workers[v].z
         Ms   == get_sliceM(R, z, The_Ts2r(R, v, z))
         Yw   == Stored(WeightedY(R, v, z))
         nxyz == R.nxy * R.nz
     IN  workers' = [workers EXCEPT ![v].phase = "read", ![v].j = 0,
                       ![v].add = Stored([j \in 0 .. R.nc - 1 |->
                                    Stored([i \in 0 .. R.nxy - 1 |->
                                       Yw[j] * MTimes(R, Ms, rhs_x, j * nxyz)[i]])])]
  /\ UNCHANGED << basis, R, rhs_x, rhs_r, dst_y, dst_x, prodpc, it, dwival, Wvox, y, pc, run, lock >>

\* dst.segment(...) += ..., first half: the slab is read
ParForwardRead(v) ==
  /\ prodpc = "parforward"
  /\ workers[v].phase = "read"
  /\ workers' = [workers EXCEPT ![v].phase = "write",
                   ![v].tmp = [k \in ForwardSlab(R, v, workers[v].z) |-> dst_y[k]]]
  /\ UNCHANGED << basis, R, rhs_x, rhs_r, dst_y, dst_x, prodpc, it, dwival, Wvox, y, pc, run, lock >>

\* dst.segment(...) += ..., second half: the sum is written back; next j, next z
ParForwardWrite(v) ==
  /\ prodpc = "parforward"
  /\ workers[v].phase = "write"
  /\ LET w    == workers[v]
         base == get_grad_idx(R, v, w.z) * R.nxy
     IN  /\ dst_y' = [k \in DOMAIN dst_y |->
                        IF k \in ForwardSlab(R, v, w.z) THEN w.tmp[k] + w.add[w.j][k - base]
                        ELSE dst_y[k]]
         /\ workers' = [workers EXCEPT ![v] =
                          IF w.j + 1 < R.nc
                          THEN [w EXCEPT !.j = w.j + 1, !.phase = "read", !.tmp = << >>]
                          ELSE NextSlice(R, w)]
  /\ UNCHANGED << basis, R, rhs_x, rhs_r, dst_x, prodpc, it, dwival, Wvox, y, pc, run, lock >>

\* the end of the parallel region of A*x; A^T*r starts
ParForwardJoin ==
  /\ prodpc = "parforward"
  /\ \A v \in DOMAIN workers : workers[v].phase = "done"
  /\ prodpc' = "paradjoint"
  /\ workers' = [v \in DOMAIN workers |-> WorkerStart]
  /\ UNCHANGED << basis, R, rhs_x, rhs_r, dst_y, dst_x, it, dwival, Wvox, y, pc, run, lock >>

\* A^T*r, worker v, slice z: Mt, r = Mt * rhs.segment(get_grad_idx(v,z)*nxy, nxy)
\* and Y = W(z, v) * get_sliceY(v, z); reads lhs and rhs only
ParAdjointCompute(v) ==
  /\ prodpc = "paradjoint"
  /\ workers[v].phase = "compute"
  /\ LET z  == workers[v].z
         Ms == get_sliceM(R, z, The_Ts2r(R, v, z))
     IN  workers' = [workers EXCEPT ![v].phase = "enter",
                       ![v].r = Stored(MtTimes(R, Ms, rhs_r, get_grad_idx(R, v, z) * R.nxy)),
                       ![v].Yw = Stored(WeightedY(R, v, z))]
  /\ UNCHANGED << basis, R, rhs_x, rhs_r, dst_y, dst_x, prodpc, it, dwival, Wvox, y, pc, run, lock >>

\* #pragma omp critical: entry
ParAdjointEnter(v) ==
  /\ prodpc = "paradjoint"
  /\ workers[v].phase = "enter"
  /\ CriticalFree(lock)
  /\ lock' = v
  /\ workers' = [workers EXCEPT ![v].phase = "read", ![v].j = 0]
  /\ UNCHANGED << basis, R, rhs_x, rhs_r, dst_y, dst_x, prodpc, it, dwival, Wvox, y, pc, run >>

\* dst.segment(j*nxyz, nxyz) += Y[j] * r, first half: the segment is read
ParAdjointRead(v) ==
  /\ prodpc = "paradjoint"
  /\ workers[v].phase = "read"
  /\ workers' = [workers EXCEPT ![v].phase = "write",
                   ![v].tmp = [k \in AdjointSegment(R, workers[v].j) |-> dst_x[k]]]
  /\ UNCHANGED << basis, R, rhs_x, rhs_r, dst_y, dst_x, prodpc, it, dwival, Wvox, y, pc, run, lock >>

\* dst.segment(j*nxyz, nxyz) += Y[j] * r, second half: the sum is written back
ParAdjointWrite(v) ==
  /\ prodpc = "paradjoint"
  /\ workers[v].phase = "write"
  /\ LET w == workers[v]
     IN  /\ dst_x' = [k \in DOMAIN dst_x |->
                        IF k \in AdjointSegment(R, w.j)
                        THEN w.tmp[k] + w.Yw[w.j] * w.r[k - w.j * R.nxy * R.nz]
                        ELSE dst_x[k]]
         /\ workers' = [workers EXCEPT ![v] =
                          IF w.j + 1 < R.nc
                          THEN [w EXCEPT !.j = w.j + 1, !.phase = "read", !.tmp = << >>]
                          ELSE [w EXCEPT !.phase = "leave", !.tmp = << >>]]
  /\ UNCHANGED << basis, R, rhs_x, rhs_r, dst_y, prodpc, it, dwival, Wvox, y, pc, run, lock >>

\* #pragma omp critical: exit; next z
ParAdjointLeave(v) ==
  /\ prodpc = "paradjoint"
  /\ workers[v].phase = "leave"
  /\ lock' = NoWorker
  /\ workers' = [workers EXCEPT ![v] = NextSlice(R, workers[v])]
  /\ UNCHANGED << basis, R, rhs_x, rhs_r, dst_y, dst_x, prodpc, it, dwival, Wvox, y, pc, run >>

\* the end of the parallel region of A^T*r
ParAdjointJoin ==
  /\ prodpc = "paradjoint"
  /\ \A v \in DOMAIN workers : workers[v].phase = "done"
  /\ prodpc' = "pardone"
  /\ UNCHANGED << basis, R, rhs_x, rhs_r, dst_y, dst_x, it, dwival, Wvox, y, pc, run, workers, lock >>

NextPar ==
  \/ \E v \in DOMAIN workers : ParForwardCompute(v)
  \/ \E v \in DOMAIN workers : ParForwardRead(v)
  \/ \E v \in DOMAIN workers : ParForwardWrite(v)
  \/ ParForwardJoin
  \/ \E v \in DOMAIN workers : ParAdjointCompute(v)
  \/ \E v \in DOMAIN workers : ParAdjointEnter(v)
  \/ \E v \in DOMAIN workers : ParAdjointRead(v)
  \/ \E v \in DOMAIN workers : ParAdjointWrite(v)
  \/ \E v \in DOMAIN workers : ParAdjointLeave(v)
  \/ ParAdjointJoin

SpecPar == InitPar /\ [][NextPar]_vars


-----------------------------------------------------------------------------
(* run() (dwirecon.cpp) *)

\* largest maxiter option drawn
MaxIter == 2

\* an option that is not given on the command line
NoOpt == -1

DEFAULT_LMAX == 4
DEFAULT_MAXITER == 10

\* the tolerance and the relative residuals the solver may measure, in units of
\* the tolerance
Tol == 1
Residuals == {1, 2}

\* the command line and the files it names, with every option at its default
DefaultLine ==
  [dwiok |-> TRUE, slices |-> SizeZ, grad |-> 1,
   motion |-> [kind |-> "none", rows |-> 0],
   rf |-> "none", weights |-> "none", field |-> "none", ssp |-> "none",
   voxweights |-> "none", lmax |-> NoOpt, padding |-> "none", maxiter |-> 1,
   template |-> "none", init |-> "none", outok |-> TRUE, spred |-> "none",
   complete |-> FALSE]

\* motion files: r rows of 6 columns for every r up to Nv*Nz + 1, a per-slice
\* file repeating one row per volume, a file of 5 columns, an unreadable file
MotionOptions ==
  { [kind |-> "rows", rows |-> r] : r \in 1 .. SizeV * SizeZ + 1 }
  \cup { [kind |-> "none", rows |-> 0], [kind |-> "pervolume", rows |-> SizeV * SizeZ],
         [kind |-> "cols5", rows |-> SizeV], [kind |-> "unreadable", rows |-> 0] }

\* the motion files that pass the checks of run()
AcceptedMotionOptions ==
  { m \in MotionOptions :
      m.kind \in {"none", "pervolume"} \/ (m.kind = "rows" /\ (SizeV * SizeZ) % m.rows = 0) }

\* command lines on which the tables, the mode, the solver and the outputs vary together
PrimaryLines ==
  { [DefaultLine EXCEPT !.grad = g, !.motion = m, !.rf = r, !.weights = w,
                        !.padding = p, !.maxiter = n, !.init = i, !.spred = sp]
    : g \in 0 .. 2, m \in AcceptedMotionOptions, r \in {"none", "one", "two"},
      w \in {"none", "table"}, p \in {"none", "large"}, n \in 1 .. MaxIter,
      i \in {"none", "image"}, sp \in {"none", "image", "unwritable"} }

\* command lines that differ from the default in one option
SingleOptionLines ==
  { [DefaultLine EXCEPT !.dwiok = FALSE], [DefaultLine EXCEPT !.outok = FALSE],
    [DefaultLine EXCEPT !.maxiter = NoOpt],
    [DefaultLine EXCEPT !.lmax = 2], [DefaultLine EXCEPT !.lmax = 0, !.rf = "one"],
    [DefaultLine EXCEPT !.spred = "image", !.complete = TRUE] }
  \cup { [DefaultLine EXCEPT !.motion = m, !.slices = nz] : m \in MotionOptions, nz \in {1, SizeZ} }
  \cup { [DefaultLine EXCEPT !.rf = r] : r \in {"badrows", "unreadable"} }
  \cup { [DefaultLine EXCEPT !.weights = w] : w \in {"baddims", "unreadable"} }
  \cup { [DefaultLine EXCEPT !.field = f] : f \in {"map", "unreadable"} }
  \cup { [DefaultLine EXCEPT !.ssp = f] : f \in {"scalar", "vector", "invalid"} }
  \cup { [DefaultLine EXCEPT !.voxweights = f] : f \in {"image", "baddims", "unreadable"} }
  \cup { [DefaultLine EXCEPT !.padding = "small", !.rf = r] : r \in {"none", "one"} }
  \cup { [DefaultLine EXCEPT !.template = f] : f \in {"header", "unreadable"} }
  \cup { [DefaultLine EXCEPT !.init = f, !.rf = r]
         : f \in {"unreadable", "badgrid", "badshells", "short"}, r \in {"none", "one"} }

CommandLines == PrimaryLines \cup SingleOptionLines

\* load_matrix of the motion file
MotionFile(m) ==
  CASE m.kind = "rows" ->
         [rows |-> m.rows, cols |-> 6, at |-> [k \in 0 .. m.rows - 1 |-> MotionRow(k, 1)]]
    [] m.kind = "pervolume" ->
         [rows |-> m.rows, cols |-> 6,
          at |-> [k \in 0 .. m.rows - 1 |-> MotionRow(k \div SizeZ, 1)]]
    [] OTHER ->
         [rows |-> m.rows, cols |-> 5,
          at |-> [k \in 0 .. m.rows - 1 |-> [c \in 0 .. 4 |-> 0]]]

\* Eigen::MatrixXf::Zero(n, 6)
ZeroMotion(n) == [rows |-> n, cols |-> 6, at |-> [k \in 0 .. n - 1 |-> [c \in 0 .. 5 |-> 0]]]

\* the two checks on the motion matrix: the failure raised, or "none"
MotionCheck(motion, nv, nz) ==
  IF motion.rows * motion.cols # 0 /\ motion.cols # 6 THEN "InvalidArgument"
  ELSE IF motion.rows * motion.cols # 0 /\ (nv * nz) % motion.rows # 0 THEN "InvalidArgument"
  ELSE "none"

\* load_matrix of the rf files
RfFiles(opt, nshells) ==
  CASE opt = "one" -> << RfMatrix(nshells, 2, 1) >>
    [] opt = "two" -> << RfMatrix(nshells, 1, 1), RfMatrix(nshells, 1, 2) >>
    [] opt = "badrows" -> << RfMatrix(nshells + 1, 1, 1) >>
    [] OTHER -> << >>

RECURSIVE RfLmax(_)
\* lmax = std::max(2*(int(t.cols())-1), lmax) over the rf matrices, from 0
RfLmax(rf) ==
  IF rf = << >> THEN 0
  ELSE Max(2 * (rf[Len(rf)].cols - 1), RfLmax(SubSeq(rf, 1, Len(rf) - 1)))

\* load_matrix of the weights file
WeightsFile(opt, nz, nv) ==
  IF opt = "table"
  THEN [rows |-> nz, cols |-> nv,
        at |-> [z \in 0 .. nz - 1 |-> [v \in 0 .. nv - 1 |-> WeightValues[((z + v * nz + 1) % 3) + 1]]]]
  ELSE [rows |-> nz + 1, cols |-> nv,
        at |-> [z \in 0 .. nz |-> [v \in 0 .. nv - 1 |-> 1]]]

\* Eigen::MatrixXf::Ones(nz, nv)
OnesMatrix(nr, ncol) ==
  [rows |-> nr, cols |-> ncol, at |-> [z \in 0 .. nr - 1 |-> [v \in 0 .. ncol - 1 |-> 1]]]

RECURSIVE Concat(_)
Concat(ss) == IF ss = << >> THEN << >> ELSE Head(ss) \o Concat(Tail(ss))

\* the volume indices selected: the largest shell, or all shells sorted
VolumeIndices(shells, rf) ==
  IF rf = << >> THEN largest(shells).volumes
  ELSE SortedSeq({ c[k] : k \in 1 .. Len(Concat([s \in 1 .. Len(shells) |-> shells[s].volumes])),
                          c \in { Concat([s \in 1 .. Len(shells) |-> shells[s].volumes]) } })

\* gradsub.row(i) = grad.row(idx[i])
GradSub(grad, idx) ==
  [rows |-> Len(idx), cols |-> grad.cols, at |-> [i \in 0 .. Len(idx) - 1 |-> grad.at[idx[i + 1]]]]

\* size_t ne = motion.rows() / dwi.size(3)
MotionNe(motion, nv) == motion.rows \div nv

\* mutant of MotionSubSource: the volume is not looked up in idx
MotionSubSource_unselected(idx, ne, i, j) == i * ne + j

\* the row of motion copied to motionsub.row(i * ne + j)
MotionSubSource(idx, ne, i, j) == idx[i + 1] * ne + j

\* the tables motionsub may become: one, unless a row is read outside motion
MotionSub(motion, idx, ne) ==
  { [rows |-> ne * Len(idx), cols |-> 6,
     at |-> [m \in 0 .. ne * Len(idx) - 1 |->
              LET src == MotionSubSource(idx, ne, m \div ne, m % ne)
              IN  IF src < motion.rows THEN motion.at[src] ELSE g]]
    : g \in IF \A m \in 0 .. ne * Len(idx) - 1 :
                 MotionSubSource(idx, ne, m \div ne, m % ne) < motion.rows
            THEN {ZeroMotion(1).at[0]} ELSE StrayRows }

\* Wsub.col(i) = W.col(idx[i])
WeightsSub(W, idx) ==
  [rows |-> W.rows, cols |-> Len(idx),
   at |-> [z \in 0 .. W.rows - 1 |-> [i \in 0 .. Len(idx) - 1 |-> W.at[z][idx[i + 1]]]]]

\* PEsub.row(i) = PE.row(idx[i]); the phase encoding of volume v is v
PESub(idx) == [i \in 0 .. Len(idx) - 1 |-> idx[i + 1]]

\* the size of dwisub: Adapter::Extract1D along axis 3
SubSize(size, idx) == << size[1], size[2], size[3], Len(idx) >>

\* dwisub.value() in the order of Loop({0,1,2,3})
SubValues(values, size, idx) ==
  LET nxyz == size[1] * size[2] * size[3]
  IN  [j \in 0 .. nxyz * Len(idx) - 1 |-> values[idx[(j \div nxyz) + 1] * nxyz + (j % nxyz)]]

\* lmax after "Other parameters"
RunLmax(rf, rflmax, opt) ==
  IF rf = << >> THEN (IF opt = NoOpt THEN DEFAULT_LMAX ELSE opt)
  ELSE Min(rflmax, IF opt = NoOpt THEN rflmax ELSE opt)

\* get_option_value("padding", NforL(lmax))
RunPadding(opt, lmax) ==
  CASE opt = "small" -> NforL(lmax) - 1
    [] opt = "large" -> NforL(lmax) + 1
    [] OTHER -> NforL(lmax)

\* cg.setMaxIterations(maxiter)
setMaxIterations_one_more(maxiter) == maxiter + 1

setMaxIterations(maxiter) == maxiter

\* where the coefficients of the voxel (vx, vy, vz) start in x: j advances by
\* ncoefs per voxel in the order of Loop({0,1,2})
SegmentStart(size, ncoefs, vx, vy, vz) == ncoefs * (vx + size[1] * (vy + size[2] * vz))

\* the index of x every (voxel, coefficient) is copied from or to by the
\* segment x.segment(j, ncoefs)
SegmentIndex(size, ncoefs) ==
  [v \in (0 .. size[1] - 1) \X (0 .. size[2] - 1) \X (0 .. size[3] - 1) |->
     [c \in 0 .. ncoefs - 1 |-> SegmentStart(size, ncoefs, v[1], v[2], v[3]) + c]]

\* the shell indices k of the loops over shells.count()
ShellLoop(shells) == 0 .. Len(shells) - 1

\* qbasis.getShellBasis(k) reads inside the list of shell bases
ShellBasisInRange(M, ks) == \A k \in ks : k < Len(M.shellbasis)

\* the header of the SH output image
OutputHeader(rechdr, shells, padding) ==
  [ndim |-> 5,
   size |-> << rechdr.size[1], rechdr.size[2], rechdr.size[3], Len(shells), padding >>,
   keyval |-> [shells |-> [s \in 1 .. Len(shells) |-> shells[s].bvalue],
               shellcounts |-> [s \in 1 .. Len(shells) |-> Len(shells[s].volumes)]]]

NoMatrix == [rows |-> 0, cols |-> 0, at |-> << >>]
NoHeader == [ndim |-> 0, size |-> << >>]

RunStart(line) ==
  [args |-> line, failure |-> "none", size |-> << >>, grad |-> NoMatrix,
   motion |-> NoMatrix, shells |-> << >>, rf |-> << >>, lmax |-> 0, W |-> NoMatrix,
   hasfield |-> FALSE, idx |-> << >>, gradsub |-> NoMatrix, ne |-> 0,
   motionsub |-> NoMatrix, Wsub |-> NoMatrix, PEsub |-> << >>, ssp |-> "none",
   maxiter |-> 0, ncoefs |-> 0, padding |-> 0, srchdr |-> NoHeader, rechdr |-> NoHeader,
   cg |-> [maxIters |-> 0, i |-> 0, iters |-> 0, error |-> 0, returned |-> FALSE],
   xupdates |-> 0, x0idx |-> << >>, basisread |-> {},
   reported |-> << >>, created |-> << >>, outidx |-> << >>, written |-> NoOpt]

OperatorIdle ==
  [lmax |-> 0, nx |-> 0, ny |-> 0, nz |-> 0, nv |-> 0, nxy |-> 0, nc |-> 0,
   shellbasis |-> << >>, motion |-> NoMatrix, Y |-> NoMatrix, W |-> NoMatrix]

Init ==
  /\ workers = << >>
  /\ lock = NoWorker
  /\ basis = BasisIdle
  /\ pc = "open"
  /\ \E line \in CommandLines : run = RunStart(line)
  /\ R = OperatorIdle
  /\ rhs_x = << >>
  /\ rhs_r = << >>
  /\ dst_y = << >>
  /\ dst_x = << >>
  /\ prodpc = "idle"
  /\ it = 0
  /\ dwival = << >>
  /\ Wvox = << >>
  /\ y = << >>

\* throw Exception(...)
Throw(kind) ==
  /\ pc' = "failed"
  /\ run' = [run EXCEPT !.failure = kind]

\* line 125: open the input image; lines 143-145: its gradient table and shells
RunOpen ==
  /\ UNCHANGED << parvars, basis >>
  /\ pc = "open"
  /\ IF ~run.args.dwiok
     THEN Throw("IOFailure") /\ UNCHANGED dwival
     ELSE /\ run' = [run EXCEPT !.size = << SizeX, SizeY, run.args.slices, SizeV >>]
          /\ dwival' = [j \in 0 .. SizeX * SizeY * run.args.slices * SizeV - 1 |->
                          1 + ((j + (j \div 3)) % 2)]
          /\ pc' = "motion"
  /\ UNCHANGED << R, rhs_x, rhs_r, dst_y, dst_x, prodpc, it, Wvox, y >>

\* lines 127-139: read and check the motion parameters
RunMotion ==
  /\ UNCHANGED << parvars, basis >>
  /\ pc = "motion"
  /\ LET m == run.args.motion
         motion == IF m.kind = "none" THEN ZeroMotion(run.size[4]) ELSE MotionFile(m)
     IN  IF m.kind = "unreadable" THEN Throw("IOFailure")
         ELSE IF MotionCheck(motion, run.size[4], run.size[3]) # "none"
         THEN Throw(MotionCheck(motion, run.size[4], run.size[3]))
         ELSE /\ run' = [run EXCEPT !.motion = motion]
              /\ pc' = "shells"
  /\ UNCHANGED prodvars

\* lines 142-145: the gradient table and its shells
RunShells ==
  /\ UNCHANGED << parvars, basis >>
  /\ pc = "shells"
  /\ LET grad == GradTable(run.size[4], run.args.grad)
     IN  run' = [run EXCEPT !.grad = grad, !.shells = Shells(grad)]
  /\ pc' = "rf"
  /\ UNCHANGED prodvars

\* lines 147-157: read the multi-shell basis
RunRf ==
  /\ UNCHANGED << parvars, basis >>
  /\ pc = "rf"
  /\ LET rf == RfFiles(run.args.rf, Len(run.shells))
     IN  IF run.args.rf = "unreadable" THEN Throw("IOFailure")
         ELSE IF \E k \in 1 .. Len(rf) : rf[k].rows # Len(run.shells)
         THEN Throw("InvalidArgument")
         ELSE /\ run' = [run EXCEPT !.rf = rf, !.lmax = RfLmax(rf)]
              /\ pc' = "weights"
  /\ UNCHANGED prodvars

\* lines 159-166: read the slice weights
RunWeights ==
  /\ UNCHANGED << parvars, basis >>
  /\ pc = "weights"
  /\ LET opt == run.args.weights
         W == IF opt = "none" THEN OnesMatrix(run.size[3], run.size[4])
              ELSE WeightsFile(opt, run.size[3], run.size[4])
     IN  IF opt = "unreadable" THEN Throw("IOFailure")
         ELSE IF opt # "none" /\ (W.rows # run.size[3] \/ W.cols # run.size[4])
         THEN Throw("InvalidArgument")
         ELSE /\ run' = [run EXCEPT !.W = W]
              /\ pc' = "field"
  /\ UNCHANGED prodvars

\* lines 168-180: read the field map and the phase encoding scheme
RunField ==
  /\ UNCHANGED << parvars, basis >>
  /\ pc = "field"
  /\ IF run.args.field = "unreadable" THEN Throw("IOFailure")
     ELSE /\ run' = [run EXCEPT !.hasfield = (run.args.field # "none")]
          /\ pc' = "subset"
  /\ UNCHANGED prodvars

\* lines 182-214: the volume indices and the tables of the subset
RunSubset ==
  /\ UNCHANGED << parvars, basis >>
  /\ pc = "subset"
  /\ LET idx == VolumeIndices(run.shells, run.rf)
         ne  == MotionNe(run.motion, run.size[4])
     IN  \E msub \in MotionSub(run.motion, idx, ne) :
           run' = [run EXCEPT !.idx = idx, !.gradsub = GradSub(run.grad, idx), !.ne = ne,
                              !.motionsub = msub, !.Wsub = WeightsSub(run.W, idx),
                              !.PEsub = IF run.hasfield THEN PESub(idx) ELSE << >>]
  /\ pc' = "ssp"
  /\ UNCHANGED prodvars

\* lines 216-231: the slice sensitivity profile
RunSsp ==
  /\ UNCHANGED << parvars, basis >>
  /\ pc = "ssp"
  /\ IF run.args.ssp = "invalid" THEN Throw("InvalidArgument")
     ELSE /\ run' = [run EXCEPT !.ssp = IF run.args.ssp = "vector" THEN "vector" ELSE "gaussian"]
          /\ pc' = "voxweights"
  /\ UNCHANGED prodvars

\* lines 233-243: read the voxel weights
RunVoxWeights ==
  /\ UNCHANGED << parvars, basis >>
  /\ pc = "voxweights"
  /\ LET n == run.size[1] * run.size[2] * run.size[3] * Len(run.idx)
         opt == run.args.voxweights
     IN  IF opt = "unreadable" THEN Throw("IOFailure") /\ UNCHANGED Wvox
         ELSE IF opt = "baddims" THEN Throw("InvalidArgument") /\ UNCHANGED Wvox
         ELSE /\ Wvox' = IF opt = "none" THEN [j \in 0 .. n - 1 |-> 1] ELSE VoxWeightVector(n)
              /\ pc' = "params"
              /\ UNCHANGED run
  /\ UNCHANGED << R, rhs_x, rhs_r, dst_y, dst_x, prodpc, it, dwival, y >>

\* lines 245-262: lmax, maxiter, the number of coefficients, the padding
RunParams ==
  /\ UNCHANGED << parvars, basis >>
  /\ pc = "params"
  /\ LET lmax == RunLmax(run.rf, run.lmax, run.args.lmax)
         padding == RunPadding(run.args.padding, lmax)
         maxiter == IF run.args.maxiter = NoOpt THEN DEFAULT_MAXITER ELSE run.args.maxiter
     IN  IF padding < NforL(lmax) THEN Throw("InvalidArgument")
         ELSE /\ run' = [run EXCEPT !.lmax = lmax, !.maxiter = maxiter, !.padding = padding,
                                    !.ncoefs = get_ncoefs(run.rf, lmax)]
              /\ pc' = "headers"
  /\ UNCHANGED prodvars

\* lines 265-282: the source header and the recon header
RunHeaders ==
  /\ UNCHANGED << parvars, basis >>
  /\ pc = "headers"
  /\ LET sub == SubSize(run.size, run.idx)
     IN  IF run.args.template = "unreadable" THEN Throw("IOFailure")
         ELSE /\ run' = [run EXCEPT !.srchdr = [ndim |-> 4, size |-> sub],
                                    !.rechdr = [ndim |-> 4,
                                                size |-> << sub[1], sub[2], sub[3], run.ncoefs >>]]
              /\ pc' = "build"
  /\ UNCHANGED prodvars

\* lines 257, 285-293: the q-space basis, the mapping and the operator, with
\* the slice weights of the subset
RunBuild ==
  /\ UNCHANGED << parvars, basis >>
  /\ pc = "build"
  /\ R' = setW(ReconMatrix(run.srchdr.size, run.motionsub, run.gradsub, run.lmax, run.rf),
               run.Wsub)
  /\ pc' = "loady"
  /\ UNCHANGED << rhs_x, rhs_r, dst_y, dst_x, prodpc, it, dwival, Wvox, y, run >>

\* lines 301-307: the weighted observation vector
RunLoadY ==
  /\ UNCHANGED << parvars, basis >>
  /\ pc = "loady"
  /\ y' = LoadY(run.srchdr.size, run.Wsub, Wvox, SubValues(dwival, run.size, run.idx))
  /\ pc' = "solve"
  /\ UNCHANGED << R, rhs_x, rhs_r, dst_y, dst_x, prodpc, it, dwival, Wvox, run >>

\* lines 309-346: set up the solver; with -init, load and pack the starting point
RunSolve ==
  /\ UNCHANGED << parvars, basis >>
  /\ pc = "solve"
  /\ LET opt == run.args.init
         cg  == [run.cg EXCEPT !.maxIters = setMaxIterations(run.maxiter)]
     IN  IF opt = "unreadable" THEN Throw("IOFailure")
         ELSE IF opt \in {"badgrid", "badshells", "short"} THEN Throw("InvalidArgument")
         ELSE IF opt = "none"
         THEN /\ run' = [run EXCEPT !.cg = cg]
              /\ pc' = "cg"
         ELSE IF ShellBasisInRange(R, ShellLoop(run.shells))
         THEN /\ run' = [run EXCEPT !.cg = cg, !.basisread = ShellLoop(run.shells),
                                    !.x0idx = SegmentIndex(run.rechdr.size, run.ncoefs)]
              /\ pc' = "cg"
         ELSE \E outcome \in {"cg", "crashed"} :
                /\ run' = [run EXCEPT !.cg = cg, !.basisread = ShellLoop(run.shells),
                                      !.x0idx = SegmentIndex(run.rechdr.size, run.ncoefs)]
                /\ pc' = outcome
  /\ UNCHANGED prodvars

\* LeastSquaresConjugateGradient: the residual is at or below the tolerance
Converged(res) == res <= Tol

\* cg.solve / cg.solveWithGuess, before the first iteration: the residual of the
\* starting point is measured
RunCgStart ==
  /\ UNCHANGED << parvars, basis >>
  /\ pc = "cg"
  /\ ~run.cg.returned
  /\ run.cg.error = 0
  /\ \E res \in Residuals :
       run' = [run EXCEPT !.cg.error = res,
                          !.cg.returned = Converged(res),
                          !.cg.iters = 0]
  /\ UNCHANGED pc
  /\ UNCHANGED prodvars

\* one iteration: x is updated, the residual is measured again
RunCgIterate ==
  /\ UNCHANGED << parvars, basis >>
  /\ pc = "cg"
  /\ ~run.cg.returned
  /\ run.cg.error # 0
  /\ run.cg.i < run.cg.maxIters
  /\ \E res \in Residuals :
       run' = [run EXCEPT !.xupdates = @ + 1,
                          !.cg.error = res,
                          !.cg.i = IF Converged(res) THEN @ ELSE @ + 1,
                          !.cg.returned = Converged(res),
                          !.cg.iters = IF Converged(res) THEN run.cg.i ELSE @]
  /\ UNCHANGED pc
  /\ UNCHANGED prodvars

\* the iteration count has reached the maximum
RunCgMaxIter ==
  /\ UNCHANGED << parvars, basis >>
  /\ pc = "cg"
  /\ ~run.cg.returned
  /\ run.cg.error # 0
  /\ run.cg.i >= run.cg.maxIters
  /\ run' = [run EXCEPT !.cg.returned = TRUE, !.cg.iters = run.cg.i]
  /\ UNCHANGED pc
  /\ UNCHANGED prodvars

\* lines 352-353: report the iteration count and the estimated error
RunReport ==
  /\ UNCHANGED << parvars, basis >>
  /\ pc = "cg"
  /\ run.cg.returned
  /\ run' = [run EXCEPT !.reported = << run.cg.iters, run.cg.error >>]
  /\ pc' = "write"
  /\ UNCHANGED prodvars

\* lines 356-393: create the SH output image and unpack x into it
RunWrite ==
  /\ UNCHANGED << parvars, basis >>
  /\ pc = "write"
  /\ IF ~run.args.outok THEN Throw("IOFailure")
     ELSE LET out == [name |-> "SH", header |-> OutputHeader(run.rechdr, run.shells, run.padding)]
              after == [run EXCEPT !.created = Append(@, out),
                                   !.basisread = ShellLoop(run.shells),
                                   !.outidx = SegmentIndex(run.rechdr.size, run.ncoefs),
                                   !.written = run.xupdates]
          IN  IF ShellBasisInRange(R, ShellLoop(run.shells))
              THEN run' = after /\ pc' = "spred"
              ELSE \E outcome \in {"spred", "crashed"} : run' = after /\ pc' = outcome
  /\ UNCHANGED prodvars

\* lines 396-404: the source prediction
RunSpred ==
  /\ UNCHANGED << parvars, basis >>
  /\ pc = "spred"
  /\ IF run.args.spred = "none" THEN pc' = "done" /\ UNCHANGED run
     ELSE IF run.args.spred = "unwritable" THEN Throw("IOFailure")
     ELSE /\ run' = [run EXCEPT !.created =
                       Append(@, [name |-> "spred",
                                  header |-> [ndim |-> 4,
                                              size |-> << run.srchdr.size[1], run.srchdr.size[2],
                                                          run.srchdr.size[3],
                                                          IF run.args.complete THEN run.size[4]
                                                          ELSE run.srchdr.size[4] >>]])]
          /\ pc' = "done"
  /\ UNCHANGED prodvars

Next ==
  \/ RunOpen \/ RunMotion \/ RunShells \/ RunRf \/ RunWeights \/ RunField \/ RunSubset
  \/ RunSsp \/ RunVoxWeights \/ RunParams \/ RunHeaders \/ RunBuild \/ RunLoadY
  \/ RunSolve \/ RunCgStart \/ RunCgIterate \/ RunCgMaxIter \/ RunReport \/ RunWrite
  \/ RunSpred

Spec == Init /\ [][Next]_vars

\* the steps of cg.solve / cg.solveWithGuess and the report that follows it
SolveStep == RunCgStart \/ RunCgIterate \/ RunCgMaxIter \/ RunReport

\* run() is a sequential program: once in the solve it keeps taking steps until
\* the solve has returned and the result is reported
SpecFair == Spec /\ WF_vars(SolveStep)

-----------------------------------------------------------------------------
(* init_shellbasis, one loop iteration per step *)

\* the largest order the lmax option accepts: type_integer(0, 30)
MaxLmax == 30
\* the largest number of columns of a radial basis matrix, and of matrices
MaxCols == 3
MaxComponents == 2

\* the lists of column counts of the rf matrices; the empty list is single-shell
ColumnLists ==
  UNION { [1 .. n -> 1 .. MaxCols] : n \in 0 .. MaxComponents }

\* the state of init_shellbasis(grad, rf) on entry, in an operator constructed
\* with lmax and rf: nc = get_ncoefs(rf) (constructor), s = 0, no basis pushed
BasisStart(grad, lmax, rf) ==
  [pos |-> "shell", lmax |-> lmax, rf |-> rf, nc |-> get_ncoefs(rf, lmax),
   nshells |-> Len(Shells(grad)), s |-> 0, c |-> 0, l |-> 0, i |-> 0, j |-> 0,
   writes |-> << >>, pushed |-> 0]

InitBasis ==
  /\ \E lmax \in 0 .. MaxLmax, cl \in ColumnLists :
       basis = BasisStart(GradTable(SizeV, 1), lmax,
                          [k \in 1 .. Len(cl) |-> RfMatrix(Len(Shells(GradTable(SizeV, 1))), cl[k], k)])
  /\ R = OperatorIdle
  /\ rhs_x = << >>
  /\ rhs_r = << >>
  /\ dst_y = << >>
  /\ dst_x = << >>
  /\ prodpc = "idle"
  /\ it = 0
  /\ dwival = << >>
  /\ Wvox = << >>
  /\ y = << >>
  /\ pc = "idle"
  /\ run = RunIdle
  /\ workers = << >>
  /\ lock = NoWorker

\* rf.empty(): B.setIdentity(NforL(lmax), NforL(lmax)); basis.push_back(B); s++
BasisIdentity ==
  /\ basis.pos = "shell"
  /\ basis.s < basis.nshells
  /\ basis.rf = << >>
  /\ basis' = [basis EXCEPT !.pushed = @ + 1, !.s = @ + 1]
  /\ UNCHANGED << prodvars, runvars, parvars >>

\* B.setZero(nc, NforL(lmax)); j = 0; the loop over rf starts
BasisSetZero ==
  /\ basis.pos = "shell"
  /\ basis.s < basis.nshells
  /\ basis.rf # << >>
  /\ basis' = [basis EXCEPT !.writes = << >>, !.j = 0, !.c = 1, !.pos = "component"]
  /\ UNCHANGED << prodvars, runvars, parvars >>

\* for (auto& r : rf): the next matrix, l = 0
BasisComponent ==
  /\ basis.pos = "component"
  /\ basis.c <= Len(basis.rf)
  /\ basis' = [basis EXCEPT !.l = 0, !.pos = "band"]
  /\ UNCHANGED << prodvars, runvars, parvars >>

\* for (l = 0; l < r.cols() and 2*l <= lmax; l++): the test, then
\* i = l*(2*l-1), or the end of the loop over l
BasisBand ==
  /\ basis.pos = "band"
  /\ basis' = IF basis.l < basis.rf[basis.c].cols /\ 2 * basis.l <= basis.lmax
              THEN [basis EXCEPT !.i = basis.l * (2 * basis.l - 1), !.pos = "write"]
              ELSE [basis EXCEPT !.c = @ + 1, !.pos = "component"]
  /\ UNCHANGED << prodvars, runvars, parvars >>

\* for (i = ...; i < (l+1)*(2*l+1); i++, j++) B(j,i) = r(s,l)
BasisWrite ==
  /\ basis.pos = "write"
  /\ basis.i < (basis.l + 1) * (2 * basis.l + 1)
  /\ basis' = [basis EXCEPT
                 !.writes = Append(@, [j |-> basis.j, i |-> basis.i, l |-> basis.l,
                                       c |-> basis.c, s |-> basis.s,
                                       value |-> basis.rf[basis.c].at[basis.s][basis.l]]),
                 !.i = @ + 1, !.j = @ + 1]
  /\ UNCHANGED << prodvars, runvars, parvars >>

\* the end of the loop over i; l++
BasisBandEnd ==
  /\ basis.pos = "write"
  /\ basis.i >= (basis.l + 1) * (2 * basis.l + 1)
  /\ basis' = [basis EXCEPT !.l = @ + 1, !.pos = "band"]
  /\ UNCHANGED << prodvars, runvars, parvars >>

\* the end of the loop over rf: basis.push_back(B); s++
BasisPush ==
  /\ basis.pos = "component"
  /\ basis.c > Len(basis.rf)
  /\ basis' = [basis EXCEPT !.pushed = @ + 1, !.s = @ + 1, !.pos = "shell"]
  /\ UNCHANGED << prodvars, runvars, parvars >>

\* return basis
BasisReturn ==
  /\ basis.pos = "shell"
  /\ basis.s >= basis.nshells
  /\ basis' = [basis EXCEPT !.pos = "returned"]
  /\ UNCHANGED << prodvars, runvars, parvars >>

NextBasis ==
  \/ BasisIdentity \/ BasisSetZero \/ BasisComponent \/ BasisBand \/ BasisWrite
  \/ BasisBandEnd \/ BasisPush \/ BasisReturn

SpecBasis == InitBasis /\ [][NextBasis]_vars

-----------------------------------------------------------------------------
(* Claims about the products *)

\* some slice has a weight other than 0 and 1, and some slice is moved
ProdGeneralCase ==
  /\ \E z \in 0 .. R.W.rows - 1, v \in 0 .. R.W.cols - 1 : R.W.at[z][v] \notin {0, 1}
  /\ \E m \in 0 .. R.motion.rows - 1, c \in 0 .. 5 : R.motion.at[m][c] # 0

\* C1: the adjoint product is the transpose of the forward product: once both
\* products have been evaluated, <A*x, r> = <x, A^T*r>.
C1_AdjointIsTranspose ==
  prodpc = "done" => Dot(dst_y, rhs_r, rows(R)) = Dot(rhs_x, dst_x, cols(R))

\* C1 witness: both products evaluated with a non-zero inner product, weights
\* outside {0,1}, a moved slice and per-slice motion
C1_Witness ==
  /\ prodpc = "done"
  /\ Dot(dst_y, rhs_r, rows(R)) # 0
  /\ ProdGeneralCase
  /\ R.motion.rows = R.nv * R.nz
  /\ R.nc > 1

\* the slice (v, z) the next loop iteration works on has weight 0
NextSliceHasZeroWeight ==
  /\ it < LoopEnd(R)
  /\ R.W.at[LoopZ(R, it)][LoopV(R, it)] = 0

\* C2: weight zeroing: an iteration of A*x on a slice of weight 0 leaves dst
\* (and so the slab of that slice) unchanged, and an iteration of A^T*r on a
\* slice of weight 0 leaves dst unchanged, whatever the entries of r in its slab.
C2_WeightZeroing ==
  [][ /\ (prodpc = "forward" /\ NextSliceHasZeroWeight) => dst_y' = dst_y
      /\ (prodpc = "adjoint" /\ NextSliceHasZeroWeight) => dst_x' = dst_x ]_vars

\* C2 witness: the adjoint has passed a slice of weight 0 whose slab of r holds
\* a non-zero entry and whose slice matrix maps that slab to a non-zero vector
C2_Witness ==
  /\ prodpc = "done"
  /\ \E n \in 0 .. LoopEnd(R) - 1 :
       LET v == LoopV(R, n)
           z == LoopZ(R, n)
           r == MtTimes(R, get_sliceM(R, z, The_Ts2r(R, v, z)), rhs_r,
                        get_grad_idx(R, v, z) * R.nxy)
       IN  /\ R.W.at[z][v] = 0
           /\ \E c \in 0 .. R.nxy * R.nz - 1 : r[c] # 0
           /\ \E j \in 0 .. R.nc - 1 : get_sliceY(R, v, z)[j] # 0
  /\ \E k \in 0 .. cols(R) - 1 : dst_x[k] # 0

\* the operator with every weight replaced by its square root
WithSqrtWeights(M) ==
  setW(M, [rows |-> M.W.rows, cols |-> M.W.cols,
           at |-> [z \in 0 .. M.W.rows - 1 |-> [v \in 0 .. M.W.cols - 1 |-> Sqrt(M.W.at[z][v])]]])

\* C3: the operator scales the prediction of slice (v,z) by sqrt(W(z,v)) in A*x
\* and in A^T*r, the factor the driver applies to the observation
\* (y[j] = sqrt(W(z,v) * Wvox[j]) * dwi[j]).
C3_SqrtWeightInOperator ==
  /\ prodpc \in {"forward", "adjoint", "done"} =>
       \A j \in 0 .. rows(R) - 1 :
         y[j] = Sqrt(R.W.at[(j \div R.nxy) % R.nz][j \div (R.nxy * R.nz)] * Wvox[j]) * dwival[j]
  /\ prodpc \in {"adjoint", "done"} =>
       dst_y = ForwardProduct(WithSqrtWeights(R), ZeroVec(rows(R)), rhs_x, LoopEnd(R))
  /\ prodpc = "done" =>
       dst_x = AdjointProduct(WithSqrtWeights(R), ZeroVec(cols(R)), rhs_r, LoopEnd(R))


-----------------------------------------------------------------------------
(* Claims about run() *)

\* C4: every motion table that passes the checks of run() has 6 columns and
\* Ne*Nv rows with Ne = 1 or Ne = Nz
C4_AcceptedMotionShape ==
  run.motion # NoMatrix =>
    /\ run.motion.cols = 6
    /\ \E Ne \in {1, run.size[3]} : run.motion.rows = Ne * run.size[4]

\* C5: when run() ends in a failure, no output image has been created
C5_NoPartialOutputs == pc = "failed" => run.created = << >>

\* C6: the SH output header is 4-D with axis 3 of size padding when no rf is
\* given, and 5-D with axis 3 of size |S|, axis 4 of size padding and the keys
\* shells and shellcounts when rf is given
C6_OutputLayout ==
  \A k \in 1 .. Len(run.created) :
    run.created[k].name = "SH" =>
      LET h == run.created[k].header
      IN  IF run.rf = << >>
          THEN h.ndim = 4 /\ h.size[4] = run.padding
          ELSE /\ h.ndim = 5
               /\ h.size[4] = Len(run.shells)
               /\ h.size[5] = run.padding
               /\ {"shells", "shellcounts"} \subseteq DOMAIN h.keyval

\* the volumes of b-value b in the gradient table of the input
VolumesAt(b) == { v \in 0 .. run.grad.rows - 1 : run.grad.at[v][3] = b }

\* C7: idx is the largest shell when rf is empty and all shells ascending
\* otherwise, and for every i < |idx| and j < Ne: gradsub.row(i) =
\* grad.row(idx[i]), Wsub.col(i) = W.col(idx[i]), motionsub.row(i*Ne + j) =
\* motion.row(idx[i]*Ne + j), the row read lying inside the motion table
C7_SubsetInStep ==
  run.gradsub # NoMatrix =>
    LET idx == run.idx
        Ne  == run.motion.rows \div run.size[4]
    IN  /\ \A i \in 1 .. Len(idx) - 1 : idx[i] < idx[i + 1]
        /\ IF run.rf = << >>
           THEN \E b \in 0 .. 1 :
                  /\ { idx[i] : i \in 1 .. Len(idx) } = VolumesAt(b)
                  /\ \A b2 \in 0 .. 1 : Cardinality(VolumesAt(b2)) <= Cardinality(VolumesAt(b))
           ELSE { idx[i] : i \in 1 .. Len(idx) } = 0 .. run.size[4] - 1
        /\ run.gradsub.rows = Len(idx) /\ run.Wsub.cols = Len(idx)
        /\ run.motionsub.rows = Ne * Len(idx)
        /\ \A i \in 0 .. Len(idx) - 1 :
             /\ run.gradsub.at[i] = run.grad.at[idx[i + 1]]
             /\ \A z \in 0 .. run.size[3] - 1 : run.Wsub.at[z][i] = run.W.at[z][idx[i + 1]]
             /\ \A j \in 0 .. Ne - 1 :
                  /\ idx[i + 1] * Ne + j < run.motion.rows
                  /\ run.motionsub.at[i * Ne + j] = run.motion.at[idx[i + 1] * Ne + j]

\* a strict subset that does not start at volume 0, sliced from a per-slice
\* motion table and a weights table
C7_Witness ==
  /\ pc = "done"
  /\ Len(run.idx) < run.size[4]
  /\ run.idx[1] # 0
  /\ run.ne = run.size[3] /\ run.ne > 1
  /\ run.motionsub.at[0] # run.motion.at[0]
  /\ run.args.weights = "table"

\* the operator that the same inputs give with the per-volume motion table
\* holding row v*Nz of the per-slice table once per volume
PerVolumeOperator(M) ==
  [M EXCEPT !.motion = [rows |-> M.nv, cols |-> 6,
                        at |-> [v \in 0 .. M.nv - 1 |-> M.motion.at[v * M.nz]]]]

\* C8: for every slice (v, z), init_Y and get_Ts2r use the same motion row, v
\* when the table has Nv rows and v*Nz+z otherwise; and a per-slice table with
\* identical rows per volume selects the parameters of the per-volume table
C8_SameMotionRow ==
  pc = "loady" =>
    /\ \A v \in 0 .. R.nv - 1, z \in 0 .. R.nz - 1 :
         /\ init_Y_row(R.motion, R.nv, R.nz, v, z) = get_Ts2r_row(R, v, z)
         /\ get_Ts2r_row(R, v, z) = IF R.motion.rows = R.nv THEN v ELSE v * R.nz + z
         /\ get_Ts2r_row(R, v, z) < R.motion.rows
    /\ (/\ R.motion.rows = R.nv * R.nz
        /\ \A v \in 0 .. R.nv - 1, z \in 0 .. R.nz - 1 :
             R.motion.at[v * R.nz + z] = R.motion.at[v * R.nz])
       => \A v \in 0 .. R.nv - 1, z \in 0 .. R.nz - 1 :
            /\ R.motion.at[init_Y_row(R.motion, R.nv, R.nz, v, z)]
                 = PerVolumeOperator(R).motion.at[init_Y_row(PerVolumeOperator(R).motion, R.nv, R.nz, v, z)]
            /\ get_Ts2r(R, v, z) = get_Ts2r(PerVolumeOperator(R), v, z)

\* C9: every reader and writer of x addresses coefficient c of the voxel
\* (x, y, z) at index c*Nxyz + z*Nxy + y*Nx + x
C9_OneFlattening ==
  /\ \A v \in DOMAIN run.outidx : \A c \in DOMAIN run.outidx[v] :
       run.outidx[v][c] = c * (R.nxy * R.nz) + get_idx(R, v[1], v[2], v[3])
  /\ \A v \in DOMAIN run.x0idx : \A c \in DOMAIN run.x0idx[v] :
       run.x0idx[v][c] = c * (R.nxy * R.nz) + get_idx(R, v[1], v[2], v[3])

\* C10: the solve always returns, with an iteration count of at most maxiter;
\* no iteration is made once the count has reached maxiter; run() never fails
\* for lack of convergence, reports the iteration count and the error, and
\* goes on to write the last iterate
C10_SolveTerminates ==
  /\ [](pc = "cg" => <>(pc = "write"))
  /\ [](run.cg.returned => run.cg.iters <= run.maxiter)
  /\ [][pc = "cg" /\ run.cg.i >= run.maxiter => run'.xupdates = run.xupdates]_vars
  /\ [](pc = "failed" => run.failure \in {"IOFailure", "InvalidArgument"})
  /\ [](pc = "write" => run.reported = << run.cg.iters, run.cg.error >>)
  /\ [](run.written # NoOpt => run.written = run.xupdates)

\* the solve stopped at maxiter above the tolerance and the result was written
C10_Witness ==
  /\ pc = "done"
  /\ run.cg.iters = run.maxiter
  /\ ~Converged(run.cg.error)
  /\ run.reported = << run.maxiter, run.cg.error >>
  /\ run.written = run.xupdates
  /\ run.created # << >>

-----------------------------------------------------------------------------
(* Claims about the parallel products *)

\* the slices (v, z) of the operator
Slices == (0 .. R.W.cols - 1) \X (0 .. R.W.rows - 1)

\* C11: in A*x the workers only read x; the slab written for (v, z) is
\* [(v*nz+z)*nxy, (v*nz+z+1)*nxy), inside [0, rows(A)) and disjoint from the
\* slab of every other slice; no worker's read-modify-write is interleaved
\* with a write to the same range, and when all workers have finished dst is
\* the result of the sequential loop
C11_ForwardDisjointSlabs ==
  prodpc = "parforward" =>
    /\ rhs_x = ParVector(cols(R))
    /\ \A s \in Slices :
         /\ ForwardSlab(R, s[1], s[2])
              = (s[1] * R.nz + s[2]) * R.nxy .. (s[1] * R.nz + s[2] + 1) * R.nxy - 1
         /\ ForwardSlab(R, s[1], s[2]) \subseteq 0 .. rows(R) - 1
    /\ \A s \in Slices, t \in Slices :
         s # t => ForwardSlab(R, s[1], s[2]) \cap ForwardSlab(R, t[1], t[2]) = {}
    /\ \A v \in DOMAIN workers :
         workers[v].phase = "write" =>
           \A k \in ForwardSlab(R, v, workers[v].z) : workers[v].tmp[k] = dst_y[k]
    /\ (\A v \in DOMAIN workers : workers[v].phase = "done")
         => dst_y = ForwardProduct(R, ZeroVec(rows(R)), rhs_x, LoopEnd(R))

\* two workers are between the read and the write of their slabs at the same
\* time, each about to add something
C11_Witness ==
  /\ prodpc = "parforward"
  /\ \E v \in DOMAIN workers, u \in DOMAIN workers :
       /\ v # u
       /\ workers[v].phase = "write" /\ workers[u].phase = "write"
       /\ \E i \in 0 .. R.nxy - 1 : workers[v].add[workers[v].j][i] # 0
       /\ \E i \in 0 .. R.nxy - 1 : workers[u].add[workers[u].j][i] # 0

\* the workers of A^T*r inside the critical section
InCritical ==
  { v \in DOMAIN workers : workers[v].phase \in {"read", "write", "leave"} }

\* C12: in A^T*r every read-modify-write of dst is made by the one worker
\* inside the critical section, no update is lost, and when all workers have
\* finished dst is the sequential sum over all (v, z) and channels
C12_AdjointCritical ==
  /\ prodpc = "paradjoint" =>
       /\ Cardinality(InCritical) <= 1
       /\ \A v \in InCritical : lock = v
       /\ \A v \in DOMAIN workers :
            workers[v].phase = "write" =>
              \A k \in AdjointSegment(R, workers[v].j) : workers[v].tmp[k] = dst_x[k]
  /\ prodpc = "pardone" => dst_x = AdjointProduct(R, ZeroVec(cols(R)), rhs_r, LoopEnd(R))

\* one worker updates dst while another, with a non-zero update, waits to enter
C12_Witness ==
  /\ prodpc = "paradjoint"
  /\ \E v \in DOMAIN workers, u \in DOMAIN workers :
       /\ workers[v].phase = "write" /\ workers[u].phase = "enter"
       /\ \E k \in DOMAIN workers[u].r, j \in 0 .. R.nc - 1 : workers[u].Yw[j] * workers[u].r[k] # 0
       /\ \E k \in DOMAIN dst_x : dst_x[k] # 0

-----------------------------------------------------------------------------
(* Claims about the shell basis *)

\* N_SH(l) = (l+1)(l+2)/2
N_SH(l) == ((l + 1) * (l + 2)) \div 2

\* C13: Nc is the sum over the rf matrices of N_SH(min(2*(cols-1), lmax)), or
\* N_SH(lmax) without rf; every write B(j,i) = r(s,l) of a shell has its row j
\* in [0, Nc), never written before, its column i < N_SH(lmax) inside band l,
\* and the value r(s,l); when the shell's matrix is complete the row counter
\* is Nc
C13_CoefficientCount ==
  basis.pos \notin {"idle"} =>
    /\ basis.nc = IF basis.rf = << >> THEN N_SH(basis.lmax)
                  ELSE SumTo([k \in 0 .. Len(basis.rf) - 1 |->
                                N_SH(Min(2 * (basis.rf[k + 1].cols - 1), basis.lmax))],
                             Len(basis.rf))
    /\ \A n \in 1 .. Len(basis.writes) :
         LET w == basis.writes[n]
         IN  /\ w.j = n - 1
             /\ w.j < basis.nc
             /\ w.i < N_SH(basis.lmax)
             /\ w.l * (2 * w.l - 1) <= w.i /\ w.i < (w.l + 1) * (2 * w.l + 1)
             /\ w.value = basis.rf[w.c].at[w.s][w.l]
    /\ (basis.pos = "component" /\ basis.c > Len(basis.rf)) => basis.j = basis.nc

\* C14: every k the driver has passed to getShellBasis(k), in the warm-start
\* packing and in the unpacking of the output, is smaller than the number of
\* shell bases built from the gradient table of the selected subset, and the
\* shell index of every selected volume is in [0, |S|)
C14_ShellIndexInRange ==
  R # OperatorIdle =>
    /\ \A k \in run.basisread : k < Len(R.shellbasis)
    /\ \A v \in 0 .. run.gradsub.rows - 1 :
         get_shellidx(run.gradsub)[v] \in 0 .. Len(R.shellbasis) - 1

====
